---- MODULE Spec2Model ----
(***************************************************************************)
(* The pull-request build of the tutorials repository:                     *)
(*   .github/workflows/prs.yml   the job "notebooks" and its steps         *)
(*   the make targets execute / convert / executeall / convertall the job  *)
(*   calls (their makefile is not part of the sources at hand; they are    *)
(*   modelled from the written specification)                              *)
(*   tutorials/units-and-integration/units-and-integration.ipynb, whose    *)
(*   code cells are run in document order by the Executor                  *)
(***************************************************************************)
EXTENDS Integers, Sequences, FiniteSets, TLC

\* ------------------------------------------------------------------ bounds
NumNotebooks == 3
NumCells == 2
MaxEvals == 2

Notebooks == 1..NumNotebooks

\* ------------------------------------------------------- workflow constants
RunAllLabel == "Run all tutorials"
\* Labels a pull request of this repository can carry.  GitHub keeps label
\* names unique up to case inside a repository, so no second spelling of
\* 'Run all tutorials' can be on a pull request next to the repository's own.
LabelNames == {RunAllLabel, "content"}

OnTypes == {"opened", "reopened", "synchronize", "labeled"}
OnBranches == {"main"}
EventTypes == OnTypes \cup {"unlabeled", "closed"}
Branches == OnBranches \cup {"dev"}

StepAll == "Run all tutorials"
StepModified == "Run only modified tutorials"
RunSteps == {StepAll, StepModified}

Export(v) == [op |-> "export", arg |-> v]
Make(t) == [op |-> "make", arg |-> t]

\* Slips of the two scripts: the targets of the other step, the two make
\* lines in the other order, a target of the other mode on the second line.
RunAllScriptModifiedTargets ==
  <<Export("origin/main"), Make("execute"), Make("convert")>>
RunModifiedScriptAllTargets ==
  <<Export("origin/main"), Make("executeall"), Make("convertall")>>
RunModifiedScriptSwapped ==
  <<Export("origin/main"), Make("convert"), Make("execute")>>
RunModifiedScriptMixed ==
  <<Export("origin/main"), Make("execute"), Make("convertall")>>

RunAllScript == <<Export("origin/main"), Make("executeall"), Make("convertall")>>
RunModifiedScript == <<Export("origin/main"), Make("execute"), Make("convert")>>

StepScript(step) == IF step = StepAll THEN RunAllScript ELSE RunModifiedScript

\* The script run without -e: a failing command does not stop it.
ErrexitOff == FALSE

\* A run: block without a shell: key is run by bash -e {0}: the script stops
\* at the first command that returns non-zero.
Errexit == TRUE

\* actions/checkout with fetch-depth: 0 fetches every branch of origin.
ResolvableRefs == {"origin/main"}

\* contains(github.event.pull_request.labels.*.name, 'Run all tutorials')
ContainsLabel(ls) == RunAllLabel \in ls

NextStep(step) ==
  CASE step = "checkout" -> "setup_python"
    [] step = "setup_python" -> "install_dependencies"
    [] step = "install_dependencies" -> StepAll
    [] step = StepAll -> StepModified
    [] OTHER -> "done"

\* ------------------------------------------------------------ the pipeline
IsAllTarget(t) == t \in {"executeall", "convertall"}
IsExecuteTarget(t) == t \in {"execute", "executeall"}

\* The content of a notebook at the base reference: the unmodified source,
\* stored without outputs.
BaseContent(n) == [src |-> 0, outputs |-> 0]

ChangeDetector(override, tr) ==
  IF override THEN Notebooks
  ELSE {n \in Notebooks : tr[n] # BaseContent(n)}

RECURSIVE Ordered(_)
Ordered(S) ==
  IF S = {} THEN <<>>
  ELSE LET m == CHOOSE x \in S : \A y \in S : x <= y
       IN <<m>> \o Ordered(S \ {m})

NoHtml == [kind |-> "none", src |-> 0, outputs |-> 0]
Render(doc) == [kind |-> "html", src |-> doc.src, outputs |-> doc.outputs]

ExecutionError(n, cell) == [kind |-> "ExecutionError", path |-> n, cell |-> cell]
ConversionError(n) == [kind |-> "ConversionError", path |-> n, cell |-> 0]
ResolutionError == [kind |-> "ResolutionError", path |-> 0, cell |-> 0]

VARIABLES
  event,      \* the pull_request event that started the job, or "none"
  labels,     \* github.event.pull_request.labels.*.name
  tree,       \* working tree: notebook -> content
  policy,     \* what a make loop does after a failing notebook
  pc,         \* the step the job is at
  running,    \* the step's script is being run
  jobOK,      \* success(): no earlier step of the job has failed
  ran,        \* the run steps whose script was started
  baseRef,    \* TUTORIALS_MAIN_BRANCH as exported in each run step
  script,     \* commands of the running script still to be run
  target,     \* the make target being made, or "none"
  lastRc,     \* exit code of the last command of the script
  detected,   \* the change set has been computed
  changeSet,  \* the Change Detector's output
  queue,      \* notebooks the current make target has still to process
  makeFailed, \* a notebook failed in the current make target
  execSet,    \* the notebooks make execute(all) was started over
  convSet,    \* the notebooks make convert(all) was started over
  status,     \* notebook -> pending | executed | succeeded | failed
  raised,     \* notebook -> index of the cell that raised (0: none)
  html,       \* notebook -> the HTML document produced for it
  reported,   \* the errors written to standard error, in order
  log,        \* the pipeline's stages in the order they happened
  made,       \* the make targets started, in order
  setupFailed \* one of the steps before the run steps has failed


\* ------------------------------------------- units-and-integration.ipynb
\* A statement of a code cell: the global names it reads and binds; quad is
\* the integrand when the statement is a call of integrate.quad whose result
\* is unpacked into the targets; init: it constructs a PowerLawPDF; call: it
\* calls the instance; setsB: its first target is salpeter.B.
Stmt(reads, binds) ==
  [reads |-> reads, binds |-> binds, quad |-> "none", init |-> FALSE,
   call |-> FALSE, setsB |-> FALSE]
New(reads, binds) == [Stmt(reads, binds) EXCEPT !.init = TRUE]
Call(reads, binds) == [Stmt(reads, binds) EXCEPT !.call = TRUE]
Quad(f, reads, binds, setsB) ==
  [Stmt(reads, binds) EXCEPT !.quad = f, !.setsB = setsB]

\* Names a fresh interpreter binds before any cell has run.
Builtins == {"object", "print"}

\* B=1. in PowerLawPDF.__init__
BDefault == "1."

ImportsCell ==
  << Stmt({}, {"np"}),
     Stmt({}, {"integrate"}),
     Stmt({}, {"BlackBody"}),
     Stmt({}, {"u", "c"}),
     Stmt({}, {"plt"}),
     Stmt({}, {}) >>

PlanckNuCell ==
  << Stmt({"BlackBody", "u"}, {"bb"}),
     Stmt({"np", "u"}, {"nu"}),
     Stmt({"bb", "nu"}, {"bb5000K_nu"}),
     Stmt({"plt", "nu", "bb5000K_nu"}, {}),
     Stmt({"plt", "nu"}, {}),
     Stmt({"plt", "bb5000K_nu"}, {}),
     Stmt({"plt"}, {}),
     Stmt({"plt"}, {}) >>

TrapzNuCell == << Stmt({"np", "nu", "bb5000K_nu"}, {}) >>

PlanckLamCell ==
  << Stmt({"np", "nu", "u"}, {"lam"}),
     Stmt({"BlackBody", "bb", "u"}, {"bb_lam"}),
     Stmt({"bb_lam", "lam"}, {"bb5000K_lam"}),
     Stmt({"plt", "lam", "bb5000K_lam"}, {}),
     Stmt({"plt"}, {}),
     Stmt({"plt", "lam"}, {}),
     Stmt({"plt", "bb5000K_lam"}, {}),
     Stmt({"plt"}, {}),
     Stmt({"plt"}, {}) >>

TrapzLamCell == << Stmt({"np", "lam", "bb5000K_lam"}, {}) >>

PowerLawPDFCell == << Stmt({"object"}, {"PowerLawPDF"}) >>

SalpeterCell ==
  << New({"PowerLawPDF"}, {"salpeter"}),
     Quad("salpeter", {"integrate", "salpeter"}, {"_"}, TRUE),
     Stmt({"np"}, {"m_grid"}),
     Call({"plt", "m_grid", "salpeter"}, {}),
     Stmt({"plt"}, {}),
     Stmt({"plt"}, {}),
     Stmt({"plt"}, {}) >>

NumberRatioCell ==
  << Quad("salpeter", {"integrate", "salpeter"}, {"n_m", "_"}, FALSE),
     Quad("salpeter", {"integrate", "salpeter"}, {"n_o", "_"}, FALSE),
     Stmt({"print", "n_m", "n_o"}, {}) >>

MassRatioCell ==
  << Stmt({}, {"IMF_m"}),
     Quad("IMF_m", {"integrate", "IMF_m", "salpeter"}, {"m_m", "_"}, FALSE),
     Quad("IMF_m", {"integrate", "IMF_m", "salpeter"}, {"m_o", "_"}, FALSE),
     Stmt({"m_m", "m_o"}, {}) >>

EmptyCell == << >>

\* The document with the class defined after the cell that first uses it.
CodeCellsClassAfterUse ==
  << ImportsCell, PlanckNuCell, TrapzNuCell, PlanckLamCell, TrapzLamCell,
     SalpeterCell, PowerLawPDFCell, NumberRatioCell, MassRatioCell, EmptyCell >>

\* The code cells of the notebook, in document order.
CodeCells ==
  << ImportsCell, PlanckNuCell, TrapzNuCell, PlanckLamCell, TrapzLamCell,
     PowerLawPDFCell, SalpeterCell, NumberRatioCell, MassRatioCell, EmptyCell >>

VARIABLES
  nbCell,     \* the code cell being run (Len(CodeCells) + 1: all were run)
  nbStmt,     \* the statement of it to run next
  nbBound,    \* the global names bound in the interpreter
  nbError,    \* the exception that stopped the run, or "none"
  nbOutputs,  \* the code cells whose outputs were written back
  salpeterB,  \* salpeter.B: "unset" before the instance exists
  inQuad,     \* integrate.quad is running
  evals,      \* integrand evaluations of the running quad
  calls,      \* calls of PowerLawPDF.__call__ so far
  seenB       \* the values of self.B read while salpeter.B is being computed

nbVars == <<nbCell, nbStmt, nbBound, nbError, nbOutputs, salpeterB, inQuad,
            evals, calls, seenB>>

NbFresh ==
  /\ nbCell = 1
  /\ nbStmt = 1
  /\ nbBound = {}
  /\ nbError = "none"
  /\ nbOutputs = {}
  /\ salpeterB = "unset"
  /\ inQuad = FALSE
  /\ evals = 0
  /\ calls = 0
  /\ seenB = {}

pipeVars == <<event, labels, tree, policy, pc, running, jobOK, ran, baseRef,
              script, target, lastRc, detected, changeSet, queue, makeFailed,
              execSet, convSet, status, raised, html, reported, log, made,
              setupFailed>>

vars == <<pipeVars, nbVars>>

jobVars == <<event, labels, policy, nbVars>>
makeVars == <<tree, target, detected, changeSet, queue, makeFailed, execSet,
              convSet, status, raised, html, reported, log, made>>

\* The job before its trigger.
PipelineStart ==
  /\ event = "none"
  /\ labels \in SUBSET LabelNames
  /\ tree \in [Notebooks -> [src : {0, 1}, outputs : {0}]]
  /\ policy \in {"abort", "continue"}
  /\ pc = "idle"
  /\ running = FALSE
  /\ jobOK = TRUE
  /\ ran = {}
  /\ baseRef = [s \in RunSteps |-> "unset"]
  /\ script = <<>>
  /\ target = "none"
  /\ lastRc = 0
  /\ detected = FALSE
  /\ changeSet = {}
  /\ queue = <<>>
  /\ makeFailed = FALSE
  /\ execSet = {}
  /\ convSet = {}
  /\ status = [n \in Notebooks |-> "pending"]
  /\ raised = [n \in Notebooks |-> 0]
  /\ html = [n \in Notebooks |-> NoHtml]
  /\ reported = <<>>
  /\ log = <<>>
  /\ made = <<>>
  /\ setupFailed = FALSE

Init == PipelineStart /\ NbFresh

\* The interpreter the Executor starts for units-and-integration.ipynb, in a
\* pull request that carries no label and modifies this notebook alone.
NbInit ==
  /\ PipelineStart
  /\ labels = {}
  /\ policy = "abort"
  /\ tree = [n \in Notebooks |-> [src |-> IF n = 1 THEN 1 ELSE 0, outputs |-> 0]]
  /\ NbFresh

\* on: pull_request: branches: [main], types: [opened, reopened, synchronize, labeled]
Trigger ==
  /\ pc = "idle"
  /\ \E ty \in EventTypes, br \in Branches :
       /\ ty \in OnTypes
       /\ br \in OnBranches
       /\ event' = ty
  /\ pc' = "checkout"
  /\ UNCHANGED <<labels, tree, policy, running, jobOK, ran, baseRef, script,
                 target, lastRc, detected, changeSet, queue, makeFailed, execSet,
                 convSet, status, raised, html, reported, log, made, setupFailed,
                 nbVars>>

\* A step without an if: runs only while success() holds; it may fail.
SetupStep(step) ==
  /\ pc = step
  /\ IF jobOK
     THEN \E ok \in BOOLEAN :
            /\ jobOK' = ok
            /\ setupFailed' = ~ok
     ELSE UNCHANGED <<jobOK, setupFailed>>
  /\ pc' = NextStep(step)
  /\ UNCHANGED <<jobVars, running, ran, baseRef, script, lastRc, makeVars>>

Checkout == SetupStep("checkout")
SetUpPython == SetupStep("setup_python")
InstallDependencies == SetupStep("install_dependencies")

\* The second step's if: written without its "!".
StepIfSameCondition(step) == jobOK /\ ContainsLabel(labels)

\* The if: of a run step.  An if: that names no status function is and-ed
\* with success().
StepIf(step) ==
  /\ jobOK
  /\ IF step = StepAll THEN ContainsLabel(labels) ELSE ~ContainsLabel(labels)

BeginRunStep(step) ==
  /\ pc = step
  /\ ~running
  /\ IF StepIf(step)
     THEN /\ running' = TRUE
          /\ ran' = ran \cup {step}
          /\ script' = StepScript(step)
          /\ lastRc' = 0
          /\ pc' = pc
     ELSE /\ pc' = NextStep(step)
          /\ UNCHANGED <<running, ran, script, lastRc>>
  /\ UNCHANGED <<jobVars, jobOK, baseRef, makeVars, setupFailed>>

RunAllTutorials == BeginRunStep(StepAll)
RunOnlyModifiedTutorials == BeginRunStep(StepModified)

\* export TUTORIALS_MAIN_BRANCH=origin/main
ShellExport ==
  /\ running
  /\ target = "none"
  /\ script # <<>>
  /\ Head(script).op = "export"
  /\ baseRef' = [baseRef EXCEPT ![pc] = Head(script).arg]
  /\ script' = Tail(script)
  /\ lastRc' = 0
  /\ UNCHANGED <<jobVars, pc, running, jobOK, ran, makeVars, setupFailed>>

\* The notebooks a make target runs over: the change set, computed once per
\* run; the "all" variants force the full-repository mode.
TargetSet(t) ==
  IF IsAllTarget(t) THEN ChangeDetector(TRUE, tree)
  ELSE IF detected THEN changeSet
  ELSE ChangeDetector(FALSE, tree)

\* make <target>: the Change Detector, then the loop's queue.
MakeBegin ==
  /\ running
  /\ target = "none"
  /\ script # <<>>
  /\ Head(script).op = "make"
  /\ LET t == Head(script).arg
         resolved == IsAllTarget(t) \/ baseRef[pc] \in ResolvableRefs
         cs == IF ~resolved THEN {} ELSE TargetSet(t)
     IN /\ target' = t
        /\ made' = Append(made, t)
        /\ detected' = (detected \/ resolved)
        /\ changeSet' = cs
        /\ queue' = Ordered(cs)
        /\ makeFailed' = ~resolved
        /\ reported' = IF resolved THEN reported
                       ELSE Append(reported, ResolutionError)
        /\ log' = IF detected \/ ~resolved THEN log
                  ELSE Append(log, <<"detect", 0>>)
        /\ IF IsExecuteTarget(t)
           THEN execSet' = cs /\ convSet' = convSet
           ELSE convSet' = cs /\ execSet' = execSet
  /\ UNCHANGED <<jobVars, pc, running, jobOK, ran, baseRef, script, lastRc,
                 tree, status, raised, html, setupFailed>>

AfterFailure(q) == IF policy = "abort" THEN <<>> ELSE Tail(q)

\* The Executor on the next notebook of the change set: every code cell in
\* document order; r is the first cell that raises (0: none does).
ExecuteNotebook ==
  /\ IsExecuteTarget(target)
  /\ queue # <<>>
  /\ LET n == Head(queue)
     IN \E r \in 0..NumCells :
          /\ log' = Append(log, <<"execute", n>>)
          /\ raised' = [raised EXCEPT ![n] = r]
          /\ IF r = 0
             THEN /\ tree' = [tree EXCEPT ![n].outputs = NumCells]
                  /\ status' = [status EXCEPT ![n] = "executed"]
                  /\ queue' = Tail(queue)
                  /\ UNCHANGED <<reported, makeFailed>>
             ELSE /\ status' = [status EXCEPT ![n] = "failed"]
                  /\ reported' = Append(reported, ExecutionError(n, r))
                  /\ makeFailed' = TRUE
                  /\ queue' = AfterFailure(queue)
                  /\ UNCHANGED tree
  /\ UNCHANGED <<jobVars, pc, running, jobOK, ran, baseRef, script, target,
                 lastRc, detected, changeSet, execSet, convSet, html, made,
                 setupFailed>>

\* The Converter on the next notebook of the change set.
ConvertNotebook ==
  /\ target \in {"convert", "convertall"}
  /\ queue # <<>>
  /\ LET n == Head(queue)
     IN \E ok \in BOOLEAN :
          /\ log' = Append(log, <<"convert", n>>)
          /\ IF ok
             THEN /\ html' = [html EXCEPT ![n] = Render(tree[n])]
                  /\ status' = [status EXCEPT ![n] = "succeeded"]
                  /\ queue' = Tail(queue)
                  /\ UNCHANGED <<reported, makeFailed>>
             ELSE /\ status' = [status EXCEPT ![n] = "failed"]
                  /\ reported' = Append(reported, ConversionError(n))
                  /\ makeFailed' = TRUE
                  /\ queue' = AfterFailure(queue)
                  /\ UNCHANGED html
  /\ UNCHANGED <<jobVars, pc, running, jobOK, ran, baseRef, script, target,
                 lastRc, detected, changeSet, execSet, convSet, tree, raised,
                 made, setupFailed>>

\* make returns; under bash -e a non-zero exit code ends the script.
MakeEnd ==
  /\ target # "none"
  /\ queue = <<>>
  /\ LET rc == IF makeFailed THEN 2 ELSE 0
     IN /\ lastRc' = rc
        /\ script' = IF rc # 0 /\ Errexit THEN <<>> ELSE Tail(script)
  /\ target' = "none"
  /\ makeFailed' = FALSE
  /\ UNCHANGED <<jobVars, pc, running, jobOK, ran, baseRef, tree, detected,
                 changeSet, queue, execSet, convSet, status, raised, html,
                 reported, log, made, setupFailed>>

\* A step that never fails, as under continue-on-error.
StepFailsNever(rc) == FALSE

\* A run step fails when its shell exits with a code other than 0.
StepFails(rc) == rc # 0

\* The script is over: the shell exits with the last command's exit code.
EndRunStep ==
  /\ running
  /\ target = "none"
  /\ script = <<>>
  /\ running' = FALSE
  /\ jobOK' = (jobOK /\ ~StepFails(lastRc))
  /\ pc' = NextStep(pc)
  /\ UNCHANGED <<jobVars, ran, baseRef, script, lastRc, makeVars, setupFailed>>

Next ==
  \/ Trigger
  \/ Checkout
  \/ SetUpPython
  \/ InstallDependencies
  \/ RunAllTutorials
  \/ RunOnlyModifiedTutorials
  \/ ShellExport
  \/ MakeBegin
  \/ ExecuteNotebook
  \/ ConvertNotebook
  \/ MakeEnd
  \/ EndRunStep

Spec == Init /\ [][Next]_vars

NbRunning == nbError = "none" /\ nbCell <= Len(CodeCells)
NbHasStmt == NbRunning /\ nbStmt <= Len(CodeCells[nbCell])
NbCurrent == CodeCells[nbCell][nbStmt]
NbReadable(st) == st.reads \subseteq (nbBound \cup Builtins)

\* self.B read in __call__.
ReadB(b) == IF b = "unset" THEN "AttributeError" ELSE "none"

\* A statement that is no call of integrate.quad.
NbStatement ==
  /\ NbHasStmt
  /\ NbCurrent.quad = "none"
  /\ IF ~NbReadable(NbCurrent)
     THEN /\ nbError' = "NameError"
          /\ UNCHANGED <<nbStmt, nbBound, salpeterB, calls>>
     ELSE IF NbCurrent.call /\ ReadB(salpeterB) # "none"
     THEN /\ nbError' = ReadB(salpeterB)
          /\ UNCHANGED <<nbStmt, nbBound, salpeterB, calls>>
     ELSE /\ nbBound' = nbBound \cup NbCurrent.binds
          /\ salpeterB' = IF NbCurrent.init THEN BDefault ELSE salpeterB
          /\ calls' = IF NbCurrent.call THEN calls + 1 ELSE calls
          /\ nbStmt' = nbStmt + 1
          /\ UNCHANGED nbError
  /\ UNCHANGED <<nbCell, nbOutputs, inQuad, evals, seenB>>
  /\ UNCHANGED pipeVars

\* The right-hand side integrate.quad(...) starts: its arguments are read.
QuadBegin ==
  /\ NbHasStmt
  /\ NbCurrent.quad # "none"
  /\ ~inQuad
  /\ IF NbReadable(NbCurrent)
     THEN inQuad' = TRUE /\ evals' = 0 /\ UNCHANGED nbError
     ELSE nbError' = "NameError" /\ UNCHANGED <<inQuad, evals>>
  /\ UNCHANGED <<nbCell, nbStmt, nbBound, nbOutputs, salpeterB, calls, seenB>>
  /\ UNCHANGED pipeVars

\* quad evaluates the integrand once more: x**self.gamma / self.B
QuadEval ==
  /\ NbHasStmt
  /\ inQuad
  /\ evals < MaxEvals
  /\ IF ReadB(salpeterB) # "none"
     THEN /\ nbError' = ReadB(salpeterB)
          /\ UNCHANGED <<evals, calls, seenB>>
     ELSE /\ evals' = evals + 1
          /\ calls' = calls + 1
          /\ seenB' = IF NbCurrent.setsB THEN seenB \cup {salpeterB} ELSE seenB
          /\ UNCHANGED nbError
  /\ UNCHANGED <<nbCell, nbStmt, nbBound, nbOutputs, salpeterB, inQuad>>
  /\ UNCHANGED pipeVars

\* quad returns (value, error) and the targets are assigned.
QuadReturn ==
  /\ NbHasStmt
  /\ inQuad
  /\ evals >= 1
  /\ inQuad' = FALSE
  /\ evals' = 0
  /\ salpeterB' = IF NbCurrent.setsB THEN "integral" ELSE salpeterB
  /\ nbBound' = nbBound \cup NbCurrent.binds
  /\ nbStmt' = nbStmt + 1
  /\ UNCHANGED <<nbCell, nbError, nbOutputs, calls, seenB>>
  /\ UNCHANGED pipeVars

\* The cell's statements are done: its outputs are written, the next starts.
NbCellEnd ==
  /\ NbRunning
  /\ nbStmt > Len(CodeCells[nbCell])
  /\ nbOutputs' = nbOutputs \cup {nbCell}
  /\ nbCell' = nbCell + 1
  /\ nbStmt' = 1
  /\ UNCHANGED <<nbBound, nbError, salpeterB, inQuad, evals, calls, seenB>>
  /\ UNCHANGED pipeVars

NbNext ==
  \/ NbStatement
  \/ QuadBegin
  \/ QuadEval
  \/ QuadReturn
  \/ NbCellEnd

NotebookSpec == NbInit /\ [][NbNext]_vars

\* The job's exit code once it is over.
Done == pc = "done"
ExitCode == IF jobOK THEN 0 ELSE 1

\* ------------------------------------------------------------- vocabulary
HasRunAllLabel == "Run all tutorials" \in labels
Made(t) == \E i \in 1..Len(made) : made[i] = t
Attempted(kind) == {log[i][2] : i \in {j \in 1..Len(log) : log[j][1] = kind}}
ModifiedNotebooks == {n \in Notebooks : tree[n] # BaseContent(n)}
Terminal == {"succeeded", "failed"}
Reports(n) == {i \in 1..Len(reported) : reported[i].path = n}
ExecutedOK(n) ==
  n \in Attempted("execute") /\ raised[n] = 0 /\ tree[n].outputs = NumCells
ConvertedOK(n) == n \in Attempted("convert") /\ html[n] = Render(tree[n])

\* C1: without the label 'Run all tutorials', make execute / make convert run
\* over exactly the notebooks whose content differs from origin/main: none
\* that is unmodified is processed, and a run that exits zero has processed
\* every modified one.
ThmC1_ModifiedOnly ==
  ~HasRunAllLabel =>
    /\ ~Made("executeall") /\ ~Made("convertall")
    /\ detected => changeSet = ModifiedNotebooks
    /\ Made("execute") => execSet = ModifiedNotebooks
    /\ Made("convert") => convSet = ModifiedNotebooks
    /\ Attempted("execute") \cup Attempted("convert") \subseteq ModifiedNotebooks
    /\ (Done /\ ExitCode = 0) =>
         /\ Attempted("execute") = ModifiedNotebooks
         /\ Attempted("convert") = ModifiedNotebooks

WitC1_SomeButNotAllModified ==
  /\ ~HasRunAllLabel
  /\ Done /\ ExitCode = 0
  /\ ModifiedNotebooks # {} /\ ModifiedNotebooks # Notebooks
  /\ Attempted("convert") = ModifiedNotebooks

\* C2: with the label 'Run all tutorials', make executeall / make convertall
\* run over every notebook of the repository, whatever the diff is.
ThmC2_AllWithLabel ==
  HasRunAllLabel =>
    /\ ~Made("execute") /\ ~Made("convert")
    /\ detected => changeSet = Notebooks
    /\ Made("executeall") => execSet = Notebooks
    /\ Made("convertall") => convSet = Notebooks
    /\ (Done /\ ExitCode = 0) =>
         /\ Attempted("execute") = Notebooks
         /\ Attempted("convert") = Notebooks

WitC2_EmptyDiffAllProcessed ==
  /\ HasRunAllLabel
  /\ \A n \in Notebooks : tree[n].src = BaseContent(n).src
  /\ Done /\ ExitCode = 0
  /\ Attempted("convert") = Notebooks

\* C3: the run exits zero exactly when every notebook of the change set was
\* executed and converted successfully, and every notebook that failed has
\* its path in the reported errors.
ThmC3_ExitCode ==
  /\ Done =>
       (ExitCode = 0 <=>
          (detected /\ \A n \in changeSet : ExecutedOK(n) /\ ConvertedOK(n)))
  /\ \A n \in Notebooks :
       (status[n] = "failed" \/ raised[n] # 0) => Reports(n) # {}

WitC3_TwoFailuresReported ==
  /\ Done /\ ExitCode # 0 /\ ~setupFailed
  /\ Cardinality({n \in Notebooks : status[n] = "failed"}) >= 2
  /\ \A n \in Notebooks : status[n] = "failed" => Reports(n) # {}

\* C4: detection comes first and once, every execution precedes every
\* conversion, and a notebook is converted only after its own execution has
\* completed.
ThmC4_StageOrder ==
  /\ \A i, j \in 1..Len(log) :
       i < j => ~(log[i][1] = "convert" /\ log[j][1] = "execute")
  /\ \A j \in 1..Len(log) :
       /\ log[j][1] = "convert" =>
            \E i \in 1..(j - 1) : log[i] = <<"execute", log[j][2]>>
       /\ log[j][1] = "detect" <=> j = 1
  /\ \A n \in Notebooks : html[n] # NoHtml => ExecutedOK(n)

WitC4_TwoConverted ==
  /\ Done
  /\ Cardinality(Attempted("convert")) >= 2
  /\ Cardinality({n \in Notebooks : html[n] # NoHtml}) >= 2

\* C5: a notebook one of whose code cells raised is reported by an
\* ExecutionError naming its path and that cell's index, and no HTML is
\* produced for it.
ThmC5_RaisingCell ==
  \A n \in Notebooks :
    raised[n] # 0 =>
      /\ \E i \in 1..Len(reported) :
           reported[i] = [kind |-> "ExecutionError", path |-> n, cell |-> raised[n]]
      /\ html[n] = NoHtml

WitC5_SecondCellRaised ==
  /\ Done
  /\ \E n \in Notebooks : raised[n] = 2 /\ html[n] = NoHtml
  /\ \E m \in Notebooks : raised[m] = 0 /\ status[m] = "executed"

\* C6 as stated: every notebook of the change set starts pending, has
\* reached succeeded or failed when the run is over, and a failure is
\* reported exactly once.
OrigC6_AllReachTerminal ==
  /\ ~detected => \A n \in Notebooks : status[n] = "pending"
  /\ (Done /\ detected) => \A n \in changeSet : status[n] \in Terminal
  /\ \A n \in Notebooks :
       Cardinality(Reports(n)) = IF status[n] = "failed" THEN 1 ELSE 0

C6State ==
  /\ \A n \in Notebooks : status[n] \in {"pending", "executed"} \cup Terminal
  /\ ~detected => \A n \in Notebooks : status[n] = "pending"
  /\ detected => \A n \in Notebooks \ changeSet : status[n] = "pending"
  /\ \A n \in Notebooks :
       Cardinality(Reports(n)) = IF status[n] = "failed" THEN 1 ELSE 0
  /\ (Done /\ detected) =>
       \/ \A n \in changeSet : status[n] \in Terminal
       \/ \E m \in changeSet : status[m] = "failed"
  /\ (Done /\ detected /\ ExitCode = 0) =>
       \A n \in changeSet : status[n] = "succeeded"

C6Step == \A n \in Notebooks : status[n] \in Terminal => status'[n] = status[n]

\* C6 as amended: every notebook starts pending and is in at most one
\* terminal state, which it never leaves; a failure is reported exactly
\* once; a run that exits zero has brought every notebook of the change set
\* to succeeded, and a notebook ends the run outside the terminal states only
\* when another notebook of the change set has failed.
ThmC6_Lifecycle == [](C6State) /\ [][C6Step]_vars

WitC6_LeftNonTerminal ==
  /\ Done
  /\ \E n \in changeSet : status[n] = "executed"
  /\ \E m \in changeSet : status[m] = "failed" /\ Cardinality(Reports(m)) = 1

\* C7: once computed the change set does not change, and make convert runs
\* over the set make execute ran over, although the Executor has rewritten
\* notebooks in between.
C7Step == detected => (detected' /\ changeSet' = changeSet)

OrigC9_ExactlyOneStep ==
  Done =>
    /\ Cardinality(ran) = 1
    /\ StepAll \in ran <=> HasRunAllLabel
    /\ StepModified \in ran <=> ~HasRunAllLabel
    /\ \A s \in ran : baseRef[s] = "origin/main"

\* C9 as amended: never both steps run; in a job whose steps before them
\* (checkout, Python set-up, dependency installation) all succeeded exactly
\* one runs, 'Run all tutorials' exactly when the label is on the pull
\* request, and it exports origin/main; when one of those steps failed,
\* neither runs.
ThmC9_OneStepAfterSetup ==
  /\ Cardinality(ran) <= 1
  /\ \A s \in ran : (s = StepAll <=> HasRunAllLabel)
  /\ \A s \in ran : (made # <<>> \/ Done) => baseRef[s] = "origin/main"
  /\ \A s \in RunSteps \ ran : baseRef[s] = "unset"
  /\ Done => IF setupFailed THEN ran = {} ELSE Cardinality(ran) = 1

WitC9_ModifiedStepRan ==
  /\ Done /\ ~setupFailed
  /\ ~HasRunAllLabel
  /\ ran = {StepModified}
  /\ baseRef[StepModified] = "origin/main"

\* The names the notebook's code cells read from the global namespace.
ReadNames ==
  {"np", "integrate", "BlackBody", "u", "plt", "bb", "nu", "bb5000K_nu", "lam",
   "bb5000K_lam", "PowerLawPDF", "salpeter", "IMF_m"}

\* C10: run in document order from a fresh interpreter, no code cell reads a
\* name before it is bound; while integrate.quad computes the normalisation
\* every read of salpeter.B yields the default 1., and salpeter.B holds the
\* integral only once that call has returned.
ThmC10_DefinedBeforeUse ==
  /\ nbError = "none"
  /\ NbHasStmt => (NbCurrent.reads \cap ReadNames) \subseteq nbBound
  /\ seenB \subseteq {"1."}
  /\ (NbHasStmt /\ NbCurrent.setsB) => salpeterB = "1."
  /\ salpeterB = "integral" =>
       /\ seenB = {"1."}
       /\ "_" \in nbBound
       /\ ~(NbHasStmt /\ NbCurrent.setsB)

WitC10_NotebookRan ==
  /\ nbCell = Len(CodeCells) + 1
  /\ nbOutputs = 1..Len(CodeCells)
  /\ ReadNames \subseteq nbBound
  /\ salpeterB = "integral"
  /\ seenB = {"1."}
  /\ calls > MaxEvals

====
